---- MODULE Spec2Model ----
(***************************************************************************)
(* The Lox interpreter: lexer/scanner.rs (Scanner), parser/parser.rs       *)
(* (Parser), parser/expr.rs (Expr, evaluate), parser/value.rs (Value),     *)
(* error.rs (Error), token.rs (Token, TokenKind).                          *)
(*                                                                         *)
(* Text is a sequence of one-character strings; all source characters are  *)
(* ASCII, so a byte index of the Rust code is an index of the sequence     *)
(* (0-based in the code, hence source[i + 1] here).                        *)
(*                                                                         *)
(* A panic of the Rust code (unwrap of None, slice out of range) is kept   *)
(* in the field/variable `fault`; "none" means no panic happened.          *)
(***************************************************************************)
EXTENDS Integers, Sequences, FiniteSets, TLC

VARIABLES source, tokens, start, current, line, column, pc, result, fault, calls,
          ptokens, pcurrent, ppc, presult,
          eexpr, epc, eresult

vars == <<source, tokens, start, current, line, column, pc, result, fault, calls,
          ptokens, pcurrent, ppc, presult, eexpr, epc, eresult>>

scannerVars == <<source, tokens, start, current, line, column, pc, result, fault, calls>>
parserVars == <<ptokens, pcurrent, ppc, presult>>
evalVars == <<eexpr, epc, eresult>>

---------------------------------------------------------------------------
(* Bounds of the model *)

\* longest generated source text
MaxLen == 3
\* largest `column` argument given to Scanner::new
MaxColumn == 1
\* how many times get_tokens is called on one Scanner
MaxCalls == 2
\* longest generated token sequence handed to Parser::new, Eof not counted
MaxToks == 5
\* most nodes of a generated expression handed to evaluate
MaxNodes == 5

---------------------------------------------------------------------------
(* Characters *)

Digits == {"0", "1", "2", "3", "4", "5", "6", "7", "8", "9"}

LowerLetters == {"a", "b", "c", "d", "e", "f", "g", "h", "i", "j", "k", "l", "m",
                 "n", "o", "p", "q", "r", "s", "t", "u", "v", "w", "x", "y", "z"}

UpperLetters == {"A", "B", "C", "D", "E", "F", "G", "H", "I", "J", "K", "L", "M",
                 "N", "O", "P", "Q", "R", "S", "T", "U", "V", "W", "X", "Y", "Z"}

\* char::is_ascii_digit
is_ascii_digit(c) == c \in Digits

\* char::is_ascii_alphabetic
is_ascii_alphabetic(c) == c \in LowerLetters \cup UpperLetters

\* char::is_alphanumeric, on ASCII text
is_alphanumeric(c) == c \in LowerLetters \cup UpperLetters \cup Digits

\* The characters the generated sources are made of: one or two of every class
\* scan_token tells apart.
Chars == {"/", "!", "=", ";", "1", ".", "\"", "i", "f", "o", "r", " ", "\n", "@", "_"}

RECURSIVE Texts(_)
Texts(n) == IF n = 0 THEN {<<>>}
            ELSE LET shorter == Texts(n - 1)
                 IN  shorter \cup {Append(t, c) : t \in {s \in shorter : Len(s) = n - 1}, c \in Chars}

\* Longer sources: the two the specification scans by name, "1 + 2" and "\"abc",
\* and one of each literal shape followed by a blank: 12.5, "ab", this, for, _r
NamedSources == { <<"1", " ", "+", " ", "2">>,
                  <<"\"", "a", "b", "c">>,
                  <<"1", "2", ".", "5", " ">>,
                  <<"\"", "a", "b", "\"", " ">>,
                  <<"t", "h", "i", "s", " ">>,
                  <<"f", "o", "r", " ">>,
                  <<"_", "r", " ">> }

Sources == Texts(MaxLen) \cup NamedSources

---------------------------------------------------------------------------
(* token.rs *)

TokenKind == {"LeftParen", "RightParen", "LeftBrace", "RightBrace", "Comma", "Dot",
              "Minus", "Plus", "Semicolon", "Slash", "Star", "Colon", "Question",
              "Bang", "BangEqual", "Equal", "EqualEqual", "Greater", "GreaterEqual",
              "Less", "LessEqual", "Identifier", "String", "Number",
              "And", "Class", "Else", "False", "Fun", "For", "If", "Print", "Return",
              "Or", "Nil", "Super", "This", "True", "Var", "While", "Eof"}

\* Token::new as the scanner calls it: four arguments, no offset is passed, so the
\* token has no offset field.
ScannerToken(lexeme, kind, ln, col) ==
    [lexeme |-> lexeme, kind |-> kind, line |-> ln, column |-> col, length |-> Len(lexeme)]

\* Token::new with all five arguments.
Token_new(lexeme, kind, ln, col, offset) ==
    [lexeme |-> lexeme, kind |-> kind, line |-> ln, column |-> col,
     length |-> Len(lexeme), offset |-> offset]

---------------------------------------------------------------------------
(* lexer/scanner.rs *)

KEYWORDS ==
    ( <<"a", "n", "d">>                :> "And"    @@
      <<"c", "l", "a", "s", "s">>      :> "Class"  @@
      <<"e", "l", "s", "e">>           :> "Else"   @@
      <<"f", "a", "l", "s", "e">>      :> "False"  @@
      <<"f", "o", "r">>                :> "For"    @@
      <<"f", "u", "n">>                :> "Fun"    @@
      <<"i", "f">>                     :> "If"     @@
      <<"n", "i", "l">>                :> "Nil"    @@
      <<"o", "r">>                     :> "Or"     @@
      <<"p", "r", "i", "n", "t">>      :> "Print"  @@
      <<"r", "e", "t", "u", "r", "n">> :> "Return" @@
      <<"s", "u", "p", "e", "r">>      :> "Super"  @@
      <<"t", "r", "u", "e">>           :> "True"   @@
      <<"v", "a", "r">>                :> "Var"    @@
      <<"w", "h", "i", "l", "e">>      :> "While" )

\* A scanner in the middle of scan_token: the fields scan_token writes.
Mach(st, cur, ln, toks) ==
    [start |-> st, current |-> cur, line |-> ln, tokens |-> toks, fault |-> "none"]

Panic(m, what) == [m EXCEPT !.fault = what]

is_at_the_end(m) == m.current >= Len(source)

\* &source[a..b]: panics unless a <= b <= len
SliceOk(a, b) == a <= b /\ b <= Len(source)
Slice(a, b) == SubSeq(source, a + 1, b)

\* peek and advance unwrap the first character of source[current..]: they panic
\* when there is none. `'\0';` in peek is a statement, not a return.
HasChar(m) == m.current < Len(source)
peek(m) == source[m.current + 1]

advance(m) == IF HasChar(m) THEN [m EXCEPT !.current = @ + 1] ELSE Panic(m, "advance")

\* peek_next returns '\0' at the end, no digit
peek_next_is_digit(m) ==
    IF m.current + 1 >= Len(source) THEN FALSE
    ELSE is_ascii_digit(source[m.current + 2])

\* peek_match: `false;` is a statement, not a return: the position always moves
\* and the answer is always true.
peek_match(m, next) == [mach |-> [m EXCEPT !.current = @ + 1], matched |-> TRUE]

None == [some |-> FALSE]
Some(v) == [some |-> TRUE, v |-> v]

add_token(m, kind, value) ==
    IF value.some
    THEN [m EXCEPT !.tokens = Append(@, ScannerToken(value.v, kind, m.line, column))]
    ELSE IF SliceOk(m.start, m.current)
         THEN [m EXCEPT !.tokens =
                  Append(@, ScannerToken(Slice(m.start, m.current), kind, m.line, column))]
         ELSE Panic(m, "slice")

\* str::parse::<f64> on the texts handle_number_literal can form: the character
\* scan_token consumed, the digits after it, and at most one trailing '.'.
\* "12" and "12." are both 12; a text whose first character is no digit is an Err.
DigitValue(c) == CHOOSE d \in 0..9 : <<"0", "1", "2", "3", "4", "5", "6", "7", "8", "9">>[d + 1] = c

RECURSIVE DecimalValue(_)
DecimalValue(ds) == IF ds = <<>> THEN 0
                    ELSE 10 * DecimalValue(SubSeq(ds, 1, Len(ds) - 1)) + DigitValue(ds[Len(ds)])

IntegerPart(text) == IF text # <<>> /\ text[Len(text)] = "." THEN SubSeq(text, 1, Len(text) - 1)
                     ELSE text

parse_f64(text) ==
    LET ds == IntegerPart(text)
    IN  IF ds # <<>> /\ \A i \in 1..Len(ds) : is_ascii_digit(ds[i])
        THEN [ok |-> TRUE, n |-> DecimalValue(ds)]
        ELSE [ok |-> FALSE, n |-> 0]

\* f64::to_string of a whole number: its decimal digits, no leading zero, no ".0"
RECURSIVE to_string(_)
to_string(n) ==
    LET d == <<"0", "1", "2", "3", "4", "5", "6", "7", "8", "9">>[(n % 10) + 1]
    IN  IF n < 10 THEN <<d>> ELSE Append(to_string(n \div 10), d)

\* while self.peek().is_ascii_digit() && !self.is_at_the_end() { self.advance(); }
RECURSIVE number_digits(_)
number_digits(m) ==
    IF ~HasChar(m) THEN Panic(m, "peek")
    ELSE IF is_ascii_digit(peek(m)) /\ ~is_at_the_end(m) THEN number_digits(advance(m))
    ELSE m

handle_number_literal(m) ==
    LET m1 == number_digits(m)
    IN  IF m1.fault # "none" THEN m1
        ELSE LET m2 == IF peek(m1) = "." /\ peek_next_is_digit(m1) THEN advance(m1) ELSE m1
                 value == parse_f64(Slice(m2.start, m2.current))
             IN  IF ~value.ok THEN Panic(m2, "unwrap")
                 ELSE add_token(m2, "Number", Some(to_string(value.n)))

\* while self.peek() != '"' && !self.is_at_the_end() { ... self.advance(); }
RECURSIVE string_body(_)
string_body(m) ==
    IF ~HasChar(m) THEN Panic(m, "peek")
    ELSE IF peek(m) # "\"" /\ ~is_at_the_end(m)
         THEN string_body(advance(IF peek(m) = "\n" THEN [m EXCEPT !.line = @ + 1] ELSE m))
         ELSE m

\* The Error built when is_at_the_end() is dropped: nothing is returned there.
handle_string_literal(m) ==
    LET m1 == string_body(m)
    IN  IF m1.fault # "none" THEN m1
        ELSE LET m2 == advance(m1)
             IN  IF m2.fault # "none" THEN m2
                 ELSE IF ~SliceOk(m2.start + 1, m2.current + 1) THEN Panic(m2, "slice")
                 ELSE add_token(m2, "String", Some(Slice(m2.start + 1, m2.current + 1)))

\* while self.peek().is_alphanumeric() && !self.is_at_the_end() { self.advance(); }
RECURSIVE identifier_body(_)
identifier_body(m) ==
    IF ~HasChar(m) THEN Panic(m, "peek")
    ELSE IF is_alphanumeric(peek(m)) /\ ~is_at_the_end(m) THEN identifier_body(advance(m))
    ELSE m

\* str::trim on a text that holds no whitespace (scan_token consumed a character
\* that is none, the loop only alphanumerics)
trim(text) == text

handle_identifier(m) ==
    LET m1 == identifier_body(m)
    IN  IF m1.fault # "none" THEN m1
        ELSE LET text == trim(Slice(m1.start, m1.current))
                 token_kind == IF text \in DOMAIN KEYWORDS THEN KEYWORDS[text] ELSE "Identifier"
             IN  add_token(m1, token_kind, None)

\* while self.peek() != '\n' && !self.is_at_the_end() { self.advance(); }
RECURSIVE comment_body(_)
comment_body(m) ==
    IF ~HasChar(m) THEN Panic(m, "peek")
    ELSE IF peek(m) # "\n" /\ ~is_at_the_end(m) THEN comment_body(advance(m))
    ELSE m

\* `c` one of ! > < = : the two-character kind when peek_match answers true
one_or_two(m, two, one) ==
    LET pm == peek_match(m, "=")
    IN  IF pm.matched THEN add_token(pm.mach, two, None) ELSE add_token(pm.mach, one, None)

\* scan_token, entered with a character at `current` (get_tokens's loop guard).
\* Its value is the scanner after the call; `ret` is what it returns, always Ok:
\* the Error built in the last arm is dropped.
scan_token(m0) ==
    LET c == peek(m0)
        m == advance(m0)
        after ==
          CASE c = "+" -> add_token(m, "Plus", None)
            [] c = "-" -> add_token(m, "Minus", None)
            [] c = "*" -> add_token(m, "Star", None)
            [] c = "/" -> LET pm == peek_match(m, "/")
                          IN  IF pm.matched THEN comment_body(pm.mach)
                              ELSE add_token(pm.mach, "Slash", None)
            [] c = "(" -> add_token(m, "LeftParen", None)
            [] c = ")" -> add_token(m, "RightParen", None)
            [] c = "{" -> add_token(m, "LeftBrace", None)
            [] c = "}" -> add_token(m, "RightBrace", None)
            [] c = "," -> add_token(m, "Comma", None)
            [] c = "." -> add_token(m, "Dot", None)
            [] c = "!" -> one_or_two(m, "BangEqual", "Bang")
            [] c = ">" -> one_or_two(m, "GreaterEqual", "Greater")
            [] c = "<" -> one_or_two(m, "LessEqual", "Less")
            [] c = "=" -> one_or_two(m, "EqualEqual", "Equal")
            [] c = " " -> m
            [] c = "\r" -> m
            [] c = "\t" -> m
            [] c = "\n" -> [m EXCEPT !.line = @ + 1]
            [] c = "\"" -> handle_string_literal(m)
            [] c = "o" -> LET pm == peek_match(m, "r")
                          IN  IF pm.matched THEN add_token(pm.mach, "Or", None) ELSE pm.mach
            [] OTHER -> IF ~HasChar(m) THEN Panic(m, "peek")
                        ELSE IF is_ascii_digit(peek(m)) THEN handle_number_literal(m)
                        ELSE IF is_ascii_alphabetic(peek(m)) THEN handle_identifier(m)
                        ELSE m
    IN  [mach |-> after, ret |-> "Ok"]

NoResult == [kind |-> "none"]
OkResult(v) == [kind |-> "Ok", value |-> v]
ErrResult(e) == [kind |-> "Err", error |-> e]

\* Scanner::new(source, tokens, column): the caller's token vector is either empty
\* or holds a token already.
InitialTokens == { <<>>, <<ScannerToken(<<"!">>, "Bang", 1, 0)>> }

Init ==
    /\ source \in Sources
    /\ tokens \in InitialTokens
    /\ start = 0
    /\ current = 0
    /\ line = 1
    /\ column \in 0..MaxColumn
    /\ pc = "new"
    /\ result = NoResult
    /\ fault = "none"
    /\ calls = 0
    /\ ptokens = <<>>
    /\ pcurrent = 0
    /\ ppc = "off"
    /\ presult = NoResult
    /\ eexpr = NoResult
    /\ epc = "off"
    /\ eresult = NoResult

\* A caller calls get_tokens on a Scanner that is not inside a call.
GetTokens ==
    /\ pc \in {"new", "returned"}
    /\ calls < MaxCalls
    /\ pc' = "scanning"
    /\ calls' = calls + 1
    /\ result' = NoResult
    /\ UNCHANGED <<source, tokens, start, current, line, column, fault>>
    /\ UNCHANGED parserVars
    /\ UNCHANGED evalVars

\* One turn of get_tokens's loop: self.start = self.current; self.scan_token()
ScanStep ==
    /\ pc = "scanning"
    /\ ~(current >= Len(source))
    /\ LET r == scan_token(Mach(current, current, line, tokens))
       IN  /\ start' = r.mach.start
           /\ current' = r.mach.current
           /\ line' = r.mach.line
           /\ tokens' = r.mach.tokens
           /\ fault' = r.mach.fault
           /\ IF r.mach.fault # "none"
              THEN pc' = "panicked" /\ result' = result
              ELSE IF r.ret = "Err"
              THEN pc' = "returned" /\ result' = ErrResult(r.error)
              ELSE pc' = "scanning" /\ result' = result
    /\ UNCHANGED <<source, column, calls>>
    /\ UNCHANGED parserVars
    /\ UNCHANGED evalVars

\* The loop ends: push the Eof token, return Ok(self.tokens.clone())
ReturnTokens ==
    /\ pc = "scanning"
    /\ current >= Len(source)
    /\ tokens' = Append(tokens, ScannerToken(<<>>, "Eof", line, column))
    /\ result' = OkResult(tokens')
    /\ pc' = "returned"
    /\ UNCHANGED <<source, start, current, line, column, fault, calls>>
    /\ UNCHANGED parserVars
    /\ UNCHANGED evalVars

Next == GetTokens \/ ScanStep \/ ReturnTokens

Spec == Init /\ [][Next]_vars

---------------------------------------------------------------------------
(* parser/expr.rs: Expr and Literal *)

LitNumber(n) == [tag |-> "Number", n |-> n]
LitString(t) == [tag |-> "String", s |-> t]
LitBool(b) == [tag |-> "Bool", b |-> b]
LitNil == [tag |-> "Nil"]

Literal(lit) == [type |-> "Literal", lit |-> lit]
Binary(left, operator, right) ==
    [type |-> "Binary", left |-> left, operator |-> operator, right |-> right]
Grouping(expr) == [type |-> "Grouping", expr |-> expr]
Unary(operator, right) == [type |-> "Unary", operator |-> operator, right |-> right]
Ternary(condition, then_expr, else_expr) ==
    [type |-> "Ternary", condition |-> condition, then_expr |-> then_expr,
     else_expr |-> else_expr]

---------------------------------------------------------------------------
(* parser/parser.rs *)

\* A parser inside parse: the cursor, the panic if one happened, and the cursor
\* values it went through (one entry for each advance).
PMach(cur) == [current |-> cur, fault |-> "none", trail |-> <<>>]

\* What a parsing method leaves: Ok(expr), Err(message) or a panic, and the parser
POk(q, expr) == [tag |-> "Ok", p |-> q, expr |-> expr]
PErr(q, message) == [tag |-> "Err", p |-> q, message |-> message]
PPanic(q, what) == [tag |-> "Panic", p |-> [q EXCEPT !.fault = what]]

\* &self.tokens[self.current] is in range
PeekOk(q) == q.current < Len(ptokens)
Parser_peek(q) == ptokens[q.current + 1]

\* self.tokens[self.current - 1] is in range
PreviousOk(q) == q.current >= 1 /\ q.current - 1 < Len(ptokens)
Parser_previous(q) == ptokens[q.current]

Parser_is_at_end(q) == Parser_peek(q).kind = "Eof"

Parser_check(q, kind) == ~Parser_is_at_end(q) /\ Parser_peek(q).kind = kind

\* advance that moves the cursor whatever the current token is
Parser_advance_unguarded(q) ==
    [q EXCEPT !.current = @ + 1, !.trail = Append(@, q.current + 1)]

\* the parser after advance: the cursor moves unless the current token is Eof,
\* then previous() reads the token before the cursor
Parser_advance(q) ==
    LET moved == IF ~Parser_is_at_end(q)
                 THEN [q EXCEPT !.current = @ + 1, !.trail = Append(@, q.current + 1)]
                 ELSE q
    IN  IF PreviousOk(moved) THEN moved ELSE [moved EXCEPT !.fault = "previous"]

\* match_token: the first kind of `kinds` the current token has decides; the
\* kinds are told apart by the token itself, so their order does not matter
match_token(q, kinds) ==
    IF ~PeekOk(q) THEN [p |-> [q EXCEPT !.fault = "peek"], matched |-> FALSE]
    ELSE IF \E k \in kinds : Parser_check(q, k)
    THEN [p |-> Parser_advance(q), matched |-> TRUE]
    ELSE [p |-> q, matched |-> FALSE]

\* consume: the token when it has the kind, else Error::parse(message, position
\* of the current token)
consume(q, kind, message) ==
    IF ~PeekOk(q) THEN [tag |-> "Panic", p |-> [q EXCEPT !.fault = "peek"]]
    ELSE IF Parser_check(q, kind)
    THEN [tag |-> "Ok", p |-> Parser_advance(q), token |-> Parser_peek(q)]
    ELSE LET err_token == Parser_peek(q)
         IN  [tag |-> "Err", p |-> q,
              error |-> [kind |-> "Parse", message |-> message,
                         position |-> [line |-> err_token.line,
                                       column |-> err_token.column,
                                       offset |-> err_token.offset]]]

\* `let x = e;` with e evaluated once, before the rest of the method: body(x)
Let(e, body(_)) == CHOOSE y \in {body(x) : x \in {e}} : TRUE

RECURSIVE expression(_), comma(_), ternary(_), equality(_), equality_loop(_, _),
          comparison(_), comparison_loop(_, _), term(_), term_loop(_, _),
          factor(_), factor_loop(_, _), unary(_), primary(_)

primary(q) ==
    IF ~PeekOk(q) THEN PPanic(q, "peek")
    ELSE LET t == Parser_peek(q)
             q1 == Parser_advance(q)
         IN  CASE Parser_check(q, "False") -> POk(q1, Literal(LitBool(FALSE)))
               [] Parser_check(q, "True") -> POk(q1, Literal(LitBool(TRUE)))
               [] Parser_check(q, "Nil") -> POk(q1, Literal(LitNil))
               [] Parser_check(q, "Number") ->
                      LET value == parse_f64(t.lexeme)
                      IN  IF value.ok THEN POk(q1, Literal(LitNumber(value.n)))
                          ELSE PPanic(q1, "unwrap")
               [] Parser_check(q, "String") -> POk(q1, Literal(LitString(t.lexeme)))
               [] Parser_check(q, "LeftParen") ->
                      Let(expression(q1), LAMBDA inner :
                          IF inner.tag # "Ok" THEN inner
                          ELSE LET c == consume(inner.p, "RightParen",
                                                "Expected ')' after expression.")
                               IN  CASE c.tag = "Ok" -> POk(c.p, Grouping(inner.expr))
                                     [] c.tag = "Err" -> PErr(c.p, c.error.message)
                                     [] OTHER -> c)
               [] OTHER -> PErr(q, <<"Unexpected token: ", t>>)

unary(q) ==
    LET m == match_token(q, {"Bang", "Minus"})
    IN  IF m.p.fault # "none" THEN PPanic(m.p, m.p.fault)
        ELSE IF m.matched
        THEN Let(unary(m.p), LAMBDA right :
                 IF right.tag # "Ok" THEN right
                 ELSE POk(right.p, Unary(Parser_previous(m.p), right.expr)))
        ELSE primary(q)

\* while self.match_token(&[Slash, Star]) { ... expr = Binary{expr, operator, right} }
factor_loop(q, expr) ==
    LET m == match_token(q, {"Slash", "Star"})
    IN  IF m.p.fault # "none" THEN PPanic(m.p, m.p.fault)
        ELSE IF m.matched
        THEN Let(unary(m.p), LAMBDA right :
                 IF right.tag # "Ok" THEN right
                 ELSE factor_loop(right.p, Binary(expr, Parser_previous(m.p), right.expr)))
        ELSE POk(q, expr)

factor(q) ==
    Let(unary(q), LAMBDA first :
        IF first.tag # "Ok" THEN first ELSE factor_loop(first.p, first.expr))

\* term with the fold turned to the right: the right operand is a whole term
term_loop_right(q, expr) ==
    LET m == match_token(q, {"Plus", "Minus"})
    IN  IF m.p.fault # "none" THEN PPanic(m.p, m.p.fault)
        ELSE IF m.matched
        THEN Let(term(m.p), LAMBDA right :
                 IF right.tag # "Ok" THEN right
                 ELSE POk(right.p, Binary(expr, Parser_previous(m.p), right.expr)))
        ELSE POk(q, expr)

term_loop(q, expr) ==
    LET m == match_token(q, {"Plus", "Minus"})
    IN  IF m.p.fault # "none" THEN PPanic(m.p, m.p.fault)
        ELSE IF m.matched
        THEN Let(factor(m.p), LAMBDA right :
                 IF right.tag # "Ok" THEN right
                 ELSE term_loop(right.p, Binary(expr, Parser_previous(m.p), right.expr)))
        ELSE POk(q, expr)

term(q) ==
    Let(factor(q), LAMBDA first :
        IF first.tag # "Ok" THEN first ELSE term_loop(first.p, first.expr))

comparison_loop(q, expr) ==
    LET m == match_token(q, {"Greater", "GreaterEqual", "Less", "LessEqual"})
    IN  IF m.p.fault # "none" THEN PPanic(m.p, m.p.fault)
        ELSE IF m.matched
        THEN Let(term(m.p), LAMBDA right :
                 IF right.tag # "Ok" THEN right
                 ELSE comparison_loop(right.p,
                                      Binary(expr, Parser_previous(m.p), right.expr)))
        ELSE POk(q, expr)

comparison(q) ==
    Let(term(q), LAMBDA first :
        IF first.tag # "Ok" THEN first ELSE comparison_loop(first.p, first.expr))

\* while self.match_token(&[TokenKind::BangEqual, TokenKind::Equal]) { ... }
equality_loop(q, expr) ==
    LET m == match_token(q, {"BangEqual", "Equal"})
    IN  IF m.p.fault # "none" THEN PPanic(m.p, m.p.fault)
        ELSE IF m.matched
        THEN Let(comparison(m.p), LAMBDA right :
                 IF right.tag # "Ok" THEN right
                 ELSE equality_loop(right.p, Binary(expr, Parser_previous(m.p), right.expr)))
        ELSE POk(q, expr)

equality(q) ==
    Let(comparison(q), LAMBDA first :
        IF first.tag # "Ok" THEN first ELSE equality_loop(first.p, first.expr))

\* the rest of ternary once the `?` is consumed and the then-branch parsed
ternary_else(cond, then_expr) ==
    LET colon == match_token(then_expr.p, {"Colon"})
    IN  IF colon.p.fault # "none" THEN PPanic(colon.p, colon.p.fault)
        ELSE IF ~colon.matched
        THEN PErr(colon.p, "Expected ':' after then expression in ternary operator")
        ELSE Let(ternary(colon.p), LAMBDA else_expr :
                 IF else_expr.tag # "Ok" THEN else_expr
                 ELSE POk(else_expr.p, Ternary(cond.expr, then_expr.expr, else_expr.expr)))

ternary(q) ==
    Let(equality(q), LAMBDA cond :
        IF cond.tag # "Ok" THEN cond
        ELSE LET m == match_token(cond.p, {"Question"})
             IN  IF m.p.fault # "none" THEN PPanic(m.p, m.p.fault)
                 ELSE IF ~m.matched THEN cond
                 ELSE Let(expression(m.p), LAMBDA then_expr :
                          IF then_expr.tag # "Ok" THEN then_expr
                          ELSE ternary_else(cond, then_expr)))

\* comma: one `,` at most (an `if`, not a loop)
comma(q) ==
    Let(ternary(q), LAMBDA first :
        IF first.tag # "Ok" THEN first
        ELSE LET m == match_token(first.p, {"Comma"})
             IN  IF m.p.fault # "none" THEN PPanic(m.p, m.p.fault)
                 ELSE IF ~m.matched THEN first
                 ELSE Let(ternary(m.p), LAMBDA right :
                          IF right.tag # "Ok" THEN right
                          ELSE POk(right.p,
                                   Binary(first.expr, Parser_previous(m.p), right.expr))))

\* expression calls equality: comma and ternary are called by nothing parse reaches
expression(q) == equality(q)

parse(q) == expression(q)

\* The tokens the generated token sequences are made of
ParserAlphabet ==
    { [kind |-> "True", lexeme |-> <<"t", "r", "u", "e">>],
      [kind |-> "False", lexeme |-> <<"f", "a", "l", "s", "e">>],
      [kind |-> "Number", lexeme |-> <<"1">>],
      [kind |-> "Number", lexeme |-> <<"2">>],
      [kind |-> "Question", lexeme |-> <<"?">>],
      [kind |-> "Colon", lexeme |-> <<":">>],
      [kind |-> "LeftParen", lexeme |-> <<"(">>],
      [kind |-> "RightParen", lexeme |-> <<")">>] }

RECURSIVE SymbolSeqs(_)
SymbolSeqs(n) ==
    IF n = 0 THEN {<<>>}
    ELSE LET shorter == SymbolSeqs(n - 1)
         IN  shorter \cup {Append(t, c) : t \in {s \in shorter : Len(s) = n - 1},
                                         c \in ParserAlphabet}

\* The tokens of one line, one column each, closed by the Eof token
Tokenize(symbols) ==
    [i \in 1..(Len(symbols) + 1) |->
        IF i <= Len(symbols)
        THEN Token_new(symbols[i].lexeme, symbols[i].kind, 1, i, i - 1)
        ELSE Token_new(<<>>, "Eof", 1, i, i - 1)]

\* No Scanner is at work
ScannerOff ==
    /\ source = <<>>
    /\ tokens = <<>>
    /\ start = 0
    /\ current = 0
    /\ line = 1
    /\ column = 0
    /\ pc = "off"
    /\ result = NoResult
    /\ fault = "none"
    /\ calls = 0

\* No expression is being evaluated
EvalOff ==
    /\ eexpr = NoResult
    /\ epc = "off"
    /\ eresult = NoResult

\* Parser::new(tokens), the tokens being those of one of `inputs`
NewParser(inputs) ==
    /\ ptokens \in {Tokenize(symbols) : symbols \in inputs}
    /\ pcurrent = 0
    /\ ppc = "new"
    /\ presult = NoResult
    /\ ScannerOff
    /\ EvalOff

InitParser == NewParser(SymbolSeqs(MaxToks))

\* Parser::parse
Parse ==
    /\ ppc = "new"
    /\ \E r \in {parse(PMach(pcurrent))} :
           /\ pcurrent' = r.p.current
           /\ presult' = r
           /\ ppc' = IF r.tag = "Panic" THEN "panicked" ELSE "returned"
    /\ UNCHANGED ptokens
    /\ UNCHANGED scannerVars
    /\ UNCHANGED evalVars

NextParser == Parse

SpecParser == InitParser /\ [][NextParser]_vars

\* The tokens of arithmetic and comparison: two numbers and operators of the
\* comparison, term and factor levels
OperatorAlphabet ==
    { [kind |-> "Number", lexeme |-> <<"1">>],
      [kind |-> "Number", lexeme |-> <<"2">>],
      [kind |-> "Plus", lexeme |-> <<"+">>],
      [kind |-> "Minus", lexeme |-> <<"-">>],
      [kind |-> "Star", lexeme |-> <<"*">>],
      [kind |-> "Slash", lexeme |-> <<"/">>],
      [kind |-> "Greater", lexeme |-> <<">">>],
      [kind |-> "LessEqual", lexeme |-> <<"<", "=">>] }

\* The sequences of at most n symbols of an alphabet
RECURSIVE SeqsOver(_, _)
SeqsOver(alphabet, n) ==
    IF n = 0 THEN {<<>>}
    ELSE LET shorter == SeqsOver(alphabet, n - 1)
         IN  shorter \cup {Append(t, c) : t \in {s \in shorter : Len(s) = n - 1},
                                         c \in alphabet}

InitParserOps == NewParser(SeqsOver(OperatorAlphabet, MaxToks))

SpecParserOps == InitParserOps /\ [][NextParser]_vars

\* The tokens of equality: a number, the three operators written with `=`,
\* `!`, parentheses and Eof
EqualityAlphabet ==
    { [kind |-> "Number", lexeme |-> <<"1">>],
      [kind |-> "EqualEqual", lexeme |-> <<"=", "=">>],
      [kind |-> "BangEqual", lexeme |-> <<"!", "=">>],
      [kind |-> "Equal", lexeme |-> <<"=">>],
      [kind |-> "Bang", lexeme |-> <<"!">>],
      [kind |-> "LeftParen", lexeme |-> <<"(">>],
      [kind |-> "RightParen", lexeme |-> <<")">>],
      [kind |-> "Eof", lexeme |-> <<>>] }

InitParserEq == NewParser(SeqsOver(EqualityAlphabet, MaxToks))

SpecParserEq == InitParserEq /\ [][NextParser]_vars

\* The tokens the cursor is followed on: a number, `-` (unary and binary),
\* parentheses, and an Eof that may stand before the closing one
CursorAlphabet ==
    { [kind |-> "Number", lexeme |-> <<"1">>],
      [kind |-> "Minus", lexeme |-> <<"-">>],
      [kind |-> "LeftParen", lexeme |-> <<"(">>],
      [kind |-> "RightParen", lexeme |-> <<")">>],
      [kind |-> "Eof", lexeme |-> <<>>] }

InitParserCursor == NewParser(SeqsOver(CursorAlphabet, MaxToks))

SpecParserCursor == InitParserCursor /\ [][NextParser]_vars

---------------------------------------------------------------------------
(* f64 *)

\* An f64 is a fraction n/d in lowest terms with d > 0, or 1/0 (infinity),
\* -1/0 (-infinity), 0/0 (NaN). Rounding is left out: a value is compared with
\* a value computed the same way only. The sign of zero is left out: the
\* literals are positive, and no expression within the bound negates a zero
\* or divides one by a negative number.
RECURSIVE Gcd(_, _)
Gcd(a, b) == IF b = 0 THEN a ELSE Gcd(b, a % b)

Abs(x) == IF x < 0 THEN -x ELSE x
Sign(x) == IF x > 0 THEN 1 ELSE IF x < 0 THEN -1 ELSE 0

F64(n, d) ==
    IF d = 0 THEN [n |-> Sign(n), d |-> 0]
    ELSE LET g == Gcd(Abs(n), Abs(d))
         IN  [n |-> Sign(d) * (n \div g), d |-> Abs(d) \div g]

NaN == [n |-> 0, d |-> 0]
is_nan(x) == x = NaN

\* f64::from of a whole number
f64_from(n) == F64(n, 1)

\* -a
f64_neg(a) == [n |-> -a.n, d |-> a.d]

\* a + b
f64_add(a, b) ==
    IF is_nan(a) \/ is_nan(b) THEN NaN
    ELSE IF a.d = 0 /\ b.d = 0 THEN (IF a.n = b.n THEN a ELSE NaN)
    ELSE IF a.d = 0 THEN a
    ELSE IF b.d = 0 THEN b
    ELSE F64(a.n * b.d + b.n * a.d, a.d * b.d)

\* a - b
f64_sub(a, b) == f64_add(a, f64_neg(b))

\* a / b
f64_div(a, b) ==
    IF is_nan(a) \/ is_nan(b) THEN NaN
    ELSE IF a.d = 0 /\ b.d = 0 THEN NaN
    ELSE IF a.d = 0 THEN (IF b.n < 0 THEN f64_neg(a) ELSE a)
    ELSE IF b.d = 0 THEN F64(0, 1)
    ELSE IF b.n = 0 THEN F64(Sign(a.n), 0)
    ELSE F64(a.n * b.d, a.d * b.n)

---------------------------------------------------------------------------
(* error.rs *)

Position_new(ln, col, offset) == [line |-> ln, column |-> col, offset |-> offset]

\* A message is the sequence of the pieces format! puts together; a message
\* given as one literal is one piece.
Error_new(kind, message, position) ==
    [kind |-> kind, message |-> message, position |-> position, help |-> None]

with_help(error, help) == [error EXCEPT !.help = Some(help)]

Error_runtime(message, position) == Error_new("Runtime", message, position)

invalid_operand_types(op, left, right, position) ==
    with_help(Error_runtime(<<"Invalid operand types for ", op, ": ", left, " and ",
                              right>>, position),
              <<"The ", op, " operator requires compatible types">>)

---------------------------------------------------------------------------
(* parser/value.rs *)

ValueNumber(x) == [tag |-> "Number", n |-> x]
ValueString(t) == [tag |-> "String", s |-> t]
ValueBool(b) == [tag |-> "Bool", b |-> b]
ValueNil == [tag |-> "Nil"]

\* truthiness with Nil falsy as well
is_truthy_nil_falsy(v) == IF v.tag = "Bool" THEN v.b ELSE v.tag # "Nil"

is_truthy(v) == IF v.tag = "Bool" THEN v.b ELSE TRUE

type_name(v) ==
    CASE v.tag = "Number" -> "number"
      [] v.tag = "String" -> "string"
      [] v.tag = "Bool" -> "boolean"
      [] v.tag = "Nil" -> "nil"

\* What an evaluation leaves: Ok(value) or Err(error)
Ok(value) == [tag |-> "Ok", value |-> value]
Err(error) == [tag |-> "Err", error |-> error]

\* binary_number_operation, its closure given by name
binary_number_operation(left, right, op, position) ==
    IF left.tag = "Number" /\ right.tag = "Number"
    THEN Ok(ValueNumber(CASE op = "a - b" -> f64_sub(left.n, right.n)
                          [] op = "a + b" -> f64_add(left.n, right.n)
                          [] op = "a / b" -> f64_div(left.n, right.n)))
    ELSE Err(invalid_operand_types("Operands must be numbers.", type_name(left),
                                   type_name(right), position))

---------------------------------------------------------------------------
(* parser/expr.rs: evaluate *)

\* What a call of evaluate leaves: its result, and the nodes evaluate was
\* called on, in the order of the calls. A node is named by its path, the
\* fields that lead to it from the expression evaluated first.
Done(res, order) == [res |-> res, order |-> order]

operator_position(operator) ==
    Position_new(operator.line, operator.column, operator.offset)

RECURSIVE evaluate(_, _)

evaluate_literal(lit) ==
    Ok(CASE lit.tag = "Number" -> ValueNumber(f64_from(lit.n))
         [] lit.tag = "String" -> ValueString(lit.s)
         [] lit.tag = "Bool" -> ValueBool(lit.b)
         [] lit.tag = "Nil" -> ValueNil)

evaluate_unary(operator, right, path) ==
    Let(evaluate(right, Append(path, "right")), LAMBDA right_val :
        IF right_val.res.tag = "Err" THEN right_val
        ELSE Done(CASE operator.kind = "Minus" ->
                         IF right_val.res.value.tag = "Number"
                         THEN Ok(ValueNumber(f64_neg(right_val.res.value.n)))
                         ELSE Err(Error_runtime(<<"Operand must be a number.">>,
                                                operator_position(operator)))
                    [] operator.kind = "Bang" ->
                         Ok(ValueBool(~is_truthy(right_val.res.value)))
                    [] OTHER ->
                         Err(Error_runtime(<<"Invalid unary operator.">>,
                                           operator_position(operator))),
                  right_val.order))

\* the match with the two strings of Plus joined the other way round
binary_match_swapped(left_val, operator, right_val) ==
    CASE operator.kind = "Plus" ->
            IF left_val.tag = "Number" /\ right_val.tag = "Number"
            THEN Ok(ValueNumber(f64_add(left_val.n, right_val.n)))
            ELSE IF left_val.tag = "String" /\ right_val.tag = "String"
            THEN Ok(ValueString(right_val.s \o left_val.s))
            ELSE Err(Error_runtime(<<"Operands must be two numbers or two strings">>,
                                   operator_position(operator)))
      [] operator.kind = "Minus" ->
            binary_number_operation(left_val, right_val, "a - b",
                                    operator_position(operator))
      [] operator.kind = "Star" ->
            binary_number_operation(left_val, right_val, "a + b",
                                    operator_position(operator))
      [] operator.kind = "Slash" ->
            binary_number_operation(left_val, right_val, "a / b",
                                    operator_position(operator))
      [] OTHER ->
            Err(Error_runtime(<<"Invalid binary operator">>,
                              operator_position(operator)))

\* the match on operator.kind of evaluate_binary
binary_match(left_val, operator, right_val) ==
    CASE operator.kind = "Plus" ->
            IF left_val.tag = "Number" /\ right_val.tag = "Number"
            THEN Ok(ValueNumber(f64_add(left_val.n, right_val.n)))
            ELSE IF left_val.tag = "String" /\ right_val.tag = "String"
            THEN Ok(ValueString(left_val.s \o right_val.s))
            ELSE Err(Error_runtime(<<"Operands must be two numbers or two strings">>,
                                   operator_position(operator)))
      [] operator.kind = "Minus" ->
            binary_number_operation(left_val, right_val, "a - b",
                                    operator_position(operator))
      [] operator.kind = "Star" ->
            binary_number_operation(left_val, right_val, "a + b",
                                    operator_position(operator))
      [] operator.kind = "Slash" ->
            binary_number_operation(left_val, right_val, "a / b",
                                    operator_position(operator))
      [] OTHER ->
            Err(Error_runtime(<<"Invalid binary operator">>,
                              operator_position(operator)))

\* evaluate_binary with the right operand evaluated before the left one
evaluate_binary_right_first(left, operator, right, path) ==
    Let(evaluate(right, Append(path, "right")), LAMBDA right_val :
        IF right_val.res.tag = "Err" THEN right_val
        ELSE Let(evaluate(left, Append(path, "left")), LAMBDA left_val :
                 IF left_val.res.tag = "Err"
                 THEN Done(left_val.res, right_val.order \o left_val.order)
                 ELSE Done(binary_match(left_val.res.value, operator,
                                        right_val.res.value),
                           right_val.order \o left_val.order)))

evaluate_binary(left, operator, right, path) ==
    Let(evaluate(left, Append(path, "left")), LAMBDA left_val :
        IF left_val.res.tag = "Err" THEN left_val
        ELSE Let(evaluate(right, Append(path, "right")), LAMBDA right_val :
                 IF right_val.res.tag = "Err"
                 THEN Done(right_val.res, left_val.order \o right_val.order)
                 ELSE Done(binary_match(left_val.res.value, operator,
                                        right_val.res.value),
                           left_val.order \o right_val.order)))

\* evaluate_ternary with both branches evaluated before one is chosen
evaluate_ternary_eager(condition, then_expr, else_expr, path) ==
    Let(evaluate(condition, Append(path, "condition")), LAMBDA condition_val :
        IF condition_val.res.tag = "Err" THEN condition_val
        ELSE Let(evaluate(then_expr, Append(path, "then_expr")), LAMBDA then_val :
             IF then_val.res.tag = "Err"
             THEN Done(then_val.res, condition_val.order \o then_val.order)
             ELSE Let(evaluate(else_expr, Append(path, "else_expr")), LAMBDA else_val :
                  Done(IF else_val.res.tag = "Err" THEN else_val.res
                       ELSE IF is_truthy(condition_val.res.value) THEN then_val.res
                       ELSE else_val.res,
                       condition_val.order \o then_val.order \o else_val.order))))

evaluate_ternary(condition, then_expr, else_expr, path) ==
    Let(evaluate(condition, Append(path, "condition")), LAMBDA condition_val :
        IF condition_val.res.tag = "Err" THEN condition_val
        ELSE Let(IF is_truthy(condition_val.res.value)
                 THEN evaluate(then_expr, Append(path, "then_expr"))
                 ELSE evaluate(else_expr, Append(path, "else_expr")),
                 LAMBDA branch_val :
                     Done(branch_val.res, condition_val.order \o branch_val.order)))

evaluate(e, path) ==
    Let(CASE e.type = "Literal" -> Done(evaluate_literal(e.lit), <<>>)
          [] e.type = "Grouping" -> evaluate(e.expr, Append(path, "expr"))
          [] e.type = "Unary" -> evaluate_unary(e.operator, e.right, path)
          [] e.type = "Binary" -> evaluate_binary(e.left, e.operator, e.right, path)
          [] e.type = "Ternary" ->
                evaluate_ternary(e.condition, e.then_expr, e.else_expr, path),
        LAMBDA called : Done(called.res, <<path>> \o called.order))

\* The operator kinds of the generated expressions; the place of a kind is the
\* column of its token, so that operators of different kinds stand at
\* different positions
OperatorKinds ==
    <<"Plus", "Minus", "Star", "Slash", "Bang", "Greater", "GreaterEqual", "Less",
      "LessEqual", "BangEqual", "Equal", "EqualEqual", "Comma">>

OperatorLexeme(kind) ==
    CASE kind = "Plus" -> <<"+">>
      [] kind = "Minus" -> <<"-">>
      [] kind = "Star" -> <<"*">>
      [] kind = "Slash" -> <<"/">>
      [] kind = "Bang" -> <<"!">>
      [] kind = "Greater" -> <<">">>
      [] kind = "GreaterEqual" -> <<">", "=">>
      [] kind = "Less" -> <<"<">>
      [] kind = "LessEqual" -> <<"<", "=">>
      [] kind = "BangEqual" -> <<"!", "=">>
      [] kind = "Equal" -> <<"=">>
      [] kind = "EqualEqual" -> <<"=", "=">>
      [] kind = "Comma" -> <<",">>

OperatorToken(kind) ==
    LET i == CHOOSE j \in 1..Len(OperatorKinds) : OperatorKinds[j] = kind
    IN  Token_new(OperatorLexeme(kind), kind, 1, i, i - 1)

\* The expressions of exactly k nodes made of the leaves and operator kinds
\* of g
RECURSIVE ExprsOfSize(_, _)
ExprsOfSize(k, g) ==
    IF k = 1 THEN g.leaves
    ELSE LET sub(i) == ExprsOfSize(i, g)
         IN  {Unary(OperatorToken(op), e) : op \in g.unary, e \in sub(k - 1)}
             \cup (IF g.grouping THEN {Grouping(e) : e \in sub(k - 1)} ELSE {})
             \cup UNION {{Binary(l, OperatorToken(op), r) :
                              l \in sub(i), op \in g.binary, r \in sub(k - 1 - i)} :
                         i \in 1..(k - 2)}
             \cup (IF g.ternary
                   THEN UNION {{Ternary(c, t, e) :
                                   c \in sub(ij[1]), t \in sub(ij[2]),
                                   e \in sub(k - 1 - ij[1] - ij[2])} :
                               ij \in {x \in (1..k) \X (1..k) : x[1] + x[2] <= k - 2}}
                   ELSE {})

Exprs(n, g) == UNION {ExprsOfSize(k, g) : k \in 1..n}

\* Literals of every variant under the four arithmetic operators
ArithmeticExprs ==
    [leaves |-> {Literal(LitNumber(1)), Literal(LitNumber(2)), Literal(LitNumber(3)),
                 Literal(LitString(<<"a">>)), Literal(LitString(<<"b">>)),
                 Literal(LitBool(FALSE)), Literal(LitNil)},
     unary |-> {},
     grouping |-> FALSE,
     binary |-> {"Plus", "Minus", "Star", "Slash"},
     ternary |-> FALSE]

\* No Parser is at work
ParserOff ==
    /\ ptokens = <<>>
    /\ pcurrent = 0
    /\ ppc = "off"
    /\ presult = NoResult

\* An expression of `exprs` is about to be evaluated
NewEval(exprs) ==
    /\ eexpr \in exprs
    /\ epc = "new"
    /\ eresult = NoResult
    /\ ScannerOff
    /\ ParserOff

InitEval == NewEval(Exprs(MaxNodes, ArithmeticExprs))

\* Expr::evaluate
Evaluate ==
    /\ epc = "new"
    /\ \E r \in {evaluate(eexpr, <<>>)} : eresult' = r
    /\ epc' = "returned"
    /\ UNCHANGED eexpr
    /\ UNCHANGED scannerVars
    /\ UNCHANGED parserVars

NextEval == Evaluate

SpecEval == InitEval /\ [][NextEval]_vars

\* Literals of every variant under the two unary operators and parentheses
UnaryExprs ==
    [leaves |-> {Literal(LitNumber(1)), Literal(LitString(<<"a">>)),
                 Literal(LitBool(TRUE)), Literal(LitBool(FALSE)), Literal(LitNil)},
     unary |-> {"Minus", "Bang"},
     grouping |-> TRUE,
     binary |-> {},
     ternary |-> FALSE]

InitEvalUnary == NewEval(Exprs(MaxNodes, UnaryExprs))

SpecEvalUnary == InitEvalUnary /\ [][NextEval]_vars

\* Truthy and falsy literals, `-` to make operands that fail, and the ternary
TernaryExprs ==
    [leaves |-> {Literal(LitNumber(1)), Literal(LitNumber(2)),
                 Literal(LitBool(FALSE)), Literal(LitNil)},
     unary |-> {"Minus"},
     grouping |-> FALSE,
     binary |-> {},
     ternary |-> TRUE]

InitEvalTernary == NewEval(Exprs(MaxNodes, TernaryExprs))

SpecEvalTernary == InitEvalTernary /\ [][NextEval]_vars

\* A number and a bool, `-` to make operands that fail, and the binary
\* operators the parser builds nodes with that evaluate_binary has no arm for
ComparisonExprs ==
    [leaves |-> {Literal(LitNumber(1)), Literal(LitBool(FALSE))},
     unary |-> {"Minus"},
     grouping |-> FALSE,
     binary |-> {"Greater", "GreaterEqual", "Less", "LessEqual", "BangEqual",
                 "Equal", "EqualEqual", "Comma"},
     ternary |-> FALSE]

InitEvalComparison == NewEval(Exprs(MaxNodes, ComparisonExprs))

SpecEvalComparison == InitEvalComparison /\ [][NextEval]_vars

---------------------------------------------------------------------------
(* Claims about the scanner *)

\* get_tokens is about to scan the character c at `current`
AtChar(c) == pc = "scanning" /\ current < Len(source) /\ source[current + 1] = c
AtCharIn(S) == pc = "scanning" /\ current < Len(source) /\ source[current + 1] \in S

\* the step pushed exactly one token of this kind and lexeme and stopped at `stop`
Emitted(kind, lexeme, stop) ==
    /\ fault' = "none"
    /\ Len(tokens') = Len(tokens) + 1
    /\ SubSeq(tokens', 1, Len(tokens)) = tokens
    /\ tokens'[Len(tokens')].kind = kind
    /\ tokens'[Len(tokens')].lexeme = lexeme
    /\ current' = stop

\* C1: every token sequence a successful get_tokens returns ends with an Eof token
\* and holds no Eof token before its last index, on every call and whatever token
\* vector the Scanner was constructed with.
C1_EofOnceAtEnd ==
    result.kind = "Ok" =>
        LET ts == result.value
        IN  /\ Len(ts) >= 1
            /\ ts[Len(ts)].kind = "Eof"
            /\ \A i \in 1..(Len(ts) - 1) : ts[i].kind # "Eof"

\* C2: get_tokens never aborts: no advance, peek or slice is applied outside the
\* source, and start <= current <= length of the source in every state.
C2_NeverAborts ==
    /\ fault = "none"
    /\ pc # "panicked"
    /\ start <= current
    /\ current <= Len(source)

\* a string literal opened at the first character and never closed
UnterminatedString(src) ==
    /\ Len(src) >= 1
    /\ src[1] = "\""
    /\ \A i \in 2..Len(src) : src[i] # "\""

\* a character that starts no token, outside any string literal or comment
UnexpectedAt(src, i) ==
    /\ i \in 1..Len(src)
    /\ src[i] = "@"
    /\ \A j \in 1..Len(src) : src[j] \notin {"\"", "/"}

\* C3: get_tokens stops at the first lexical error and returns it as Err: an
\* unterminated string gives the Syntax error "unterminated string literal" at the
\* opening quote, a character that starts no token gives "unexpected character"
\* at that character, and nothing after the error point is scanned.
C3_FirstErrorReturned ==
    /\ (pc \in {"returned", "panicked"} /\ UnterminatedString(source)) =>
          /\ result.kind = "Err"
          /\ result.error.kind = "Syntax"
          /\ result.error.message = "unterminated string literal"
          /\ result.error.offset = 0
    /\ \A i \in 1..Len(source) :
          (UnexpectedAt(source, i) /\ (current >= i \/ pc \in {"returned", "panicked"})) =>
              /\ result.kind = "Err"
              /\ result.error.message = "unexpected character"
              /\ result.error.offset = i - 1
              /\ current = i

TwoCharKind(c) == CASE c = "!" -> "BangEqual" [] c = "=" -> "EqualEqual"
                    [] c = "<" -> "LessEqual" [] c = ">" -> "GreaterEqual"
OneCharKind(c) == CASE c = "!" -> "Bang" [] c = "=" -> "Equal"
                    [] c = "<" -> "Less" [] c = ">" -> "Greater"

\* the character after the one at `current` is c
NextCharIs(c) == current + 1 < Len(source) /\ source[current + 2] = c

\* index (0-based) of the first newline at or after i, the length when there is none
RECURSIVE LineEnd(_)
LineEnd(i) == IF i >= Len(source) \/ source[i + 1] = "\n" THEN i ELSE LineEnd(i + 1)

\* C4: after ! = < > the scanner emits the two-character token and consumes the
\* `=` exactly when the next character is `=`, else the one-character token and
\* only that character; after `/` it skips to the end of the line, emitting no
\* token, exactly when the next character is `/`, else it emits Slash.
C4_Lookahead ==
    [][ /\ AtCharIn({"!", "=", "<", ">"}) =>
             LET c == source[current + 1]
             IN  IF NextCharIs("=")
                 THEN Emitted(TwoCharKind(c), <<c, "=">>, current + 2)
                 ELSE Emitted(OneCharKind(c), <<c>>, current + 1)
        /\ AtChar("/") =>
             IF NextCharIs("/")
             THEN fault' = "none" /\ tokens' = tokens /\ current' = LineEnd(current + 2)
             ELSE Emitted("Slash", <<"/">>, current + 1)
      ]_vars

\* index (0-based) after the run of digits that starts at i
RECURSIVE DigitsEnd(_)
DigitsEnd(i) == IF i < Len(source) /\ is_ascii_digit(source[i + 1]) THEN DigitsEnd(i + 1) ELSE i

\* index (0-based) after the number that starts at i: digits, then `.` and digits
\* when a digit follows the `.`
NumberEnd(i) ==
    LET e == DigitsEnd(i)
    IN  IF e + 1 < Len(source) /\ source[e + 1] = "." /\ is_ascii_digit(source[e + 2])
        THEN DigitsEnd(e + 1)
        ELSE e

\* C5: a run of digits, with `.` and more digits when a digit follows the `.`, is
\* scanned into one Number token whose lexeme is the whole run, a one-digit number
\* as well.
C5_NumberToken ==
    [][ AtCharIn(Digits) =>
           Emitted("Number", SubSeq(source, current + 1, NumberEnd(current)), NumberEnd(current))
      ]_vars

\* index (0-based) of the first `"` at or after i, the length when there is none
RECURSIVE QuoteAt(_)
QuoteAt(i) == IF i >= Len(source) \/ source[i + 1] = "\"" THEN i ELSE QuoteAt(i + 1)

\* C6: a terminated string literal is scanned into one String token whose lexeme is
\* the characters strictly between the two quotes, and scanning resumes right
\* after the closing quote.
C6_StringToken ==
    [][ (AtChar("\"") /\ QuoteAt(current + 1) < Len(source)) =>
           LET close == QuoteAt(current + 1)
           IN  Emitted("String", SubSeq(source, current + 2, close), close + 1)
      ]_vars

IsWordStart(c) == is_ascii_alphabetic(c) \/ c = "_"
IsWordChar(c) == is_alphanumeric(c) \/ c = "_"

\* index (0-based) after the run of alphanumerics and underscores that starts at i
RECURSIVE WordEnd(_)
WordEnd(i) == IF i < Len(source) /\ IsWordChar(source[i + 1]) THEN WordEnd(i + 1) ELSE i

\* the sixteen keywords of the specification: the fifteen of KEYWORDS and `this`
WordKind(text) == IF text = <<"t", "h", "i", "s">> THEN "This"
                  ELSE IF text \in DOMAIN KEYWORDS THEN KEYWORDS[text]
                  ELSE "Identifier"

\* C7: a run of alphanumerics and underscores that starts with a letter or an
\* underscore is scanned into one token over the whole run, of the keyword's kind
\* when the text is one of the sixteen keywords and Identifier otherwise.
C7_WordToken ==
    [][ (pc = "scanning" /\ current < Len(source) /\ IsWordStart(source[current + 1])) =>
           LET text == SubSeq(source, current + 1, WordEnd(current))
           IN  Emitted(WordKind(text), text, WordEnd(current))
      ]_vars

PunctuationKind ==
    ( "(" :> "LeftParen" @@ ")" :> "RightParen" @@ "{" :> "LeftBrace" @@ "}" :> "RightBrace" @@
      "," :> "Comma" @@ "." :> "Dot" @@ "-" :> "Minus" @@ "+" :> "Plus" @@
      ";" :> "Semicolon" @@ "*" :> "Star" @@ ":" :> "Colon" @@ "?" :> "Question" )

\* C8: each of ( ) { } , . - + ; * : ? is scanned into one token of its kind,
\* consuming that one character.
C8_Punctuation ==
    [][ AtCharIn(DOMAIN PunctuationKind) =>
           Emitted(PunctuationKind[source[current + 1]], <<source[current + 1]>>, current + 1)
      ]_vars

\* number of newlines among the first n characters
RECURSIVE NewlinesBefore(_)
NewlinesBefore(n) == IF n = 0 THEN 0
                     ELSE NewlinesBefore(n - 1) + (IF source[n] = "\n" THEN 1 ELSE 0)

\* index (0-based) of the first character of the line that holds index i
RECURSIVE LineStart(_)
LineStart(i) == IF i = 0 \/ source[i] = "\n" THEN i ELSE LineStart(i - 1)

\* C9: every token the scanner emits carries the position of its first character:
\* line = 1 + newlines before it, column = 1-based distance from the start of its
\* line, offset = its index in the source; blanks, tabs and carriage returns emit
\* no token.
C9_TokenPosition ==
    [][ /\ (pc = "scanning" /\ current < Len(source) /\ Len(tokens') > Len(tokens)) =>
             LET t == tokens'[Len(tokens')]
             IN  /\ t.line = 1 + NewlinesBefore(current)
                 /\ t.column = current - LineStart(current) + 1
                 /\ "offset" \in DOMAIN t
                 /\ t.offset = current
        /\ AtCharIn({" ", "\r", "\t"}) => tokens' = tokens
      ]_vars

---------------------------------------------------------------------------
(* Claims about the parser *)

IsLiteralToken(t) == t.kind \in {"True", "False", "Nil", "Number", "String"}

\* the Literal node primary makes of a literal token
LiteralOf(t) ==
    CASE t.kind = "True" -> Literal(LitBool(TRUE))
      [] t.kind = "False" -> Literal(LitBool(FALSE))
      [] t.kind = "Nil" -> Literal(LitNil)
      [] t.kind = "Number" -> Literal(LitNumber(parse_f64(t.lexeme).n))
      [] t.kind = "String" -> Literal(LitString(t.lexeme))

KindsOf(ts) == [i \in 1..Len(ts) |-> ts[i].kind]

\* the tokens are   c ? t : e Eof   with three literals
IsTernaryOfLiterals(ts) ==
    /\ Len(ts) = 6
    /\ IsLiteralToken(ts[1]) /\ IsLiteralToken(ts[3]) /\ IsLiteralToken(ts[5])
    /\ ts[2].kind = "Question" /\ ts[4].kind = "Colon" /\ ts[6].kind = "Eof"

\* the tokens are   c ? t Eof   with two literals: the `:` is missing
IsTernaryWithoutColon(ts) ==
    /\ Len(ts) = 4
    /\ IsLiteralToken(ts[1]) /\ IsLiteralToken(ts[3])
    /\ ts[2].kind = "Question" /\ ts[4].kind = "Eof"

\* C10: parse enters the ladder at its lowest level, so `c ? t : e` parses to
\* Ternary(c, t, e) with all its tokens consumed, and a missing `:` after the
\* then-branch is an error.
C10_TernaryParsed ==
    /\ (ppc # "new" /\ IsTernaryOfLiterals(ptokens)) =>
          /\ presult.tag = "Ok"
          /\ presult.expr = Ternary(LiteralOf(ptokens[1]), LiteralOf(ptokens[3]),
                                    LiteralOf(ptokens[5]))
          /\ pcurrent = 5
    /\ (ppc # "new" /\ IsTernaryWithoutColon(ptokens)) =>
          /\ presult.tag = "Err"
          /\ presult.message = "Expected ':' after then expression in ternary operator"

\* the level of the ladder that folds on a binary operator kind: the higher
\* the level, the tighter the operator binds
LevelOf(kind) ==
    CASE kind \in {"Greater", "GreaterEqual", "Less", "LessEqual"} -> 1
      [] kind \in {"Plus", "Minus"} -> 2
      [] kind \in {"Slash", "Star"} -> 3
      [] OTHER -> 0

\* the tokens are   a op1 b op2 c Eof   with three literals and two operators
\* of the comparison, term and factor levels
IsTwoOperators(ts) ==
    /\ Len(ts) = 6
    /\ IsLiteralToken(ts[1]) /\ IsLiteralToken(ts[3]) /\ IsLiteralToken(ts[5])
    /\ LevelOf(ts[2].kind) > 0 /\ LevelOf(ts[4].kind) > 0
    /\ ts[6].kind = "Eof"

\* C11: the comparison, term and factor levels fold to the left and are ordered
\* by precedence: `a op1 b op2 c` parses to Binary(a, op1, Binary(b, op2, c))
\* when op2 binds tighter than op1 (a + b * c), and to
\* Binary(Binary(a, op1, b), op2, c) otherwise (same level, or a * b + c).
C11_LeftAssociative ==
    (ppc # "new" /\ IsTwoOperators(ptokens)) =>
        /\ presult.tag = "Ok"
        /\ pcurrent = 5
        /\ presult.expr =
              IF LevelOf(ptokens[4].kind) > LevelOf(ptokens[2].kind)
              THEN Binary(LiteralOf(ptokens[1]), ptokens[2],
                          Binary(LiteralOf(ptokens[3]), ptokens[4],
                                 LiteralOf(ptokens[5])))
              ELSE Binary(Binary(LiteralOf(ptokens[1]), ptokens[2],
                                 LiteralOf(ptokens[3])),
                          ptokens[4], LiteralOf(ptokens[5]))

\* `1 - 2 - 1` has been parsed
C11_Witness ==
    /\ ppc = "returned"
    /\ KindsOf(ptokens) = <<"Number", "Minus", "Number", "Minus", "Number", "Eof">>
    /\ presult.tag = "Ok"
    /\ presult.expr.type = "Binary"
    /\ presult.expr.left.type = "Binary"

\* the tokens are   a op b Eof   with two literals
IsOneOperator(ts, kind) ==
    /\ Len(ts) = 4
    /\ IsLiteralToken(ts[1]) /\ IsLiteralToken(ts[3])
    /\ ts[2].kind = kind /\ ts[4].kind = "Eof"

\* the tokens are   a op1 b op2 c Eof   with three literals and `==` or `!=`
\* for both operators
IsTwoEqualities(ts) ==
    /\ Len(ts) = 6
    /\ IsLiteralToken(ts[1]) /\ IsLiteralToken(ts[3]) /\ IsLiteralToken(ts[5])
    /\ ts[2].kind \in {"EqualEqual", "BangEqual"}
    /\ ts[4].kind \in {"EqualEqual", "BangEqual"}
    /\ ts[6].kind = "Eof"

\* C17: the equality level folds on `!=` and `==`: `a == b` parses to a Binary
\* whose operator is the EqualEqual token and `a != b` to one whose operator is
\* the BangEqual token, the fold nests to the left, and a lone `=` (Equal) is
\* not taken as an equality operator.
C17_EqualityOperators ==
    ppc # "new" =>
        /\ \A kind \in {"EqualEqual", "BangEqual"} :
               IsOneOperator(ptokens, kind) =>
                   /\ presult.tag = "Ok"
                   /\ presult.expr = Binary(LiteralOf(ptokens[1]), ptokens[2],
                                             LiteralOf(ptokens[3]))
                   /\ pcurrent = 3
        /\ IsTwoEqualities(ptokens) =>
               /\ presult.tag = "Ok"
               /\ presult.expr = Binary(Binary(LiteralOf(ptokens[1]), ptokens[2],
                                                LiteralOf(ptokens[3])),
                                         ptokens[4], LiteralOf(ptokens[5]))
        /\ IsOneOperator(ptokens, "Equal") =>
               ~(presult.tag = "Ok" /\ presult.expr.type = "Binary")

\* the 0-based index of the first Eof token
FirstEof(ts) ==
    (CHOOSE i \in 1..Len(ts) :
        ts[i].kind = "Eof" /\ \A j \in 1..(i - 1) : ts[j].kind # "Eof") - 1

\* how many tokens an expression is written with
RECURSIVE TokenCount(_)
TokenCount(e) ==
    CASE e.type = "Literal" -> 1
      [] e.type = "Grouping" -> 2 + TokenCount(e.expr)
      [] e.type = "Unary" -> 1 + TokenCount(e.right)
      [] e.type = "Binary" -> TokenCount(e.left) + 1 + TokenCount(e.right)
      [] e.type = "Ternary" ->
            TokenCount(e.condition) + 1 + TokenCount(e.then_expr) + 1
                + TokenCount(e.else_expr)

\* the kind lists the parsing methods hand to match_token
MatchedKinds ==
    { {"Comma"}, {"Question"}, {"Colon"}, {"BangEqual", "Equal"},
      {"Greater", "GreaterEqual", "Less", "LessEqual"}, {"Plus", "Minus"},
      {"Slash", "Star"}, {"Bang", "Minus"}, {"False"}, {"True"}, {"Nil"},
      {"Number"}, {"String"}, {"LeftParen"} }

\* C18: on tokens that end with Eof, parse never panics (peek stays inside the
\* tokens, previous is called with current >= 1 only); the cursor moves one
\* token at a time and never beyond the first Eof; advance at Eof, a
\* match_token that matches nothing and a consume that fails leave the cursor
\* where it was; and parse stops right behind the expression it returns, the
\* tokens after it left unconsumed.
C18_CursorInBounds ==
    ppc # "new" =>
        /\ ppc = "returned"
        /\ presult.p.fault = "none"
        /\ pcurrent \in 0..FirstEof(ptokens)
        /\ pcurrent = Len(presult.p.trail)
        /\ \A i \in 1..Len(presult.p.trail) : presult.p.trail[i] = i
        /\ presult.tag = "Ok" => pcurrent = TokenCount(presult.expr)
        /\ \A c \in 0..(Len(ptokens) - 1) :
               /\ Parser_is_at_end(PMach(c)) => Parser_advance(PMach(c)).current = c
               /\ \A kinds \in MatchedKinds :
                      ~match_token(PMach(c), kinds).matched =>
                          match_token(PMach(c), kinds).p.current = c
               /\ consume(PMach(c), "RightParen", "").tag = "Err" =>
                      consume(PMach(c), "RightParen", "").p.current = c

\* `( 1 ) 1 Eof Eof` has been parsed: the cursor is behind the `)`, before the
\* first Eof, which is not the last token
C18_Witness ==
    /\ ppc = "returned"
    /\ presult.tag = "Ok"
    /\ presult.expr.type = "Grouping"
    /\ pcurrent = 3
    /\ FirstEof(ptokens) = 4
    /\ Len(ptokens) = 6

---------------------------------------------------------------------------
(* Claims about the evaluator *)

\* a * b
f64_mul(a, b) ==
    IF is_nan(a) \/ is_nan(b) THEN NaN ELSE F64(a.n * b.n, a.d * b.d)

\* the value of an operand of the expression evaluated, or the error it gives
OperandOf(field) == evaluate(eexpr[field], <<field>>).res

IsNumber(res) == res.tag = "Ok" /\ res.value.tag = "Number"

\* the expression evaluated is a Binary node with an operator of `kinds`
IsBinaryOf(kinds) == eexpr.type = "Binary" /\ eexpr.operator.kind \in kinds

\* the tree of `1 + 2 * 3`
OnePlusTwoTimesThree ==
    Binary(Literal(LitNumber(1)), OperatorToken("Plus"),
           Binary(Literal(LitNumber(2)), OperatorToken("Star"), Literal(LitNumber(3))))

\* C12: a Binary node whose operands both evaluate to a Number evaluates to
\* the Number left - right under Minus, left * right under Star and
\* left / right under Slash; so `1 + 2 * 3` evaluates to Number(7).
C12_Arithmetic ==
    epc = "returned" =>
        /\ (IsBinaryOf({"Minus", "Star", "Slash"})
              /\ IsNumber(OperandOf("left")) /\ IsNumber(OperandOf("right"))) =>
               eresult.res =
                   Ok(ValueNumber(
                       CASE eexpr.operator.kind = "Minus" ->
                               f64_sub(OperandOf("left").value.n,
                                       OperandOf("right").value.n)
                         [] eexpr.operator.kind = "Star" ->
                               f64_mul(OperandOf("left").value.n,
                                       OperandOf("right").value.n)
                         [] eexpr.operator.kind = "Slash" ->
                               f64_div(OperandOf("left").value.n,
                                       OperandOf("right").value.n)))
        /\ eexpr = OnePlusTwoTimesThree => eresult.res = Ok(ValueNumber(f64_from(7)))

IsValue(res) == res.tag = "Ok"

\* the result is the Runtime error with the message
IsRuntimeError(res, message) ==
    /\ res.tag = "Err"
    /\ res.error.kind = "Runtime"
    /\ res.error.message = message

\* the result is the Runtime error with the message, at the operator of the
\* expression evaluated
IsRuntimeErrorAtOperator(res, message) ==
    /\ IsRuntimeError(res, message)
    /\ res.error.position = Position_new(eexpr.operator.line, eexpr.operator.column,
                                         eexpr.operator.offset)

\* C13: a Binary node with Minus, Star or Slash whose operands evaluate to
\* values that are not both Numbers gives no value but the Runtime error
\* "operands must be numbers" (capitals and full stop aside) at the position of
\* the operator token.
C13_OperandsMustBeNumbers ==
    (epc = "returned" /\ IsBinaryOf({"Minus", "Star", "Slash"})
        /\ IsValue(OperandOf("left")) /\ IsValue(OperandOf("right"))
        /\ ~(IsNumber(OperandOf("left")) /\ IsNumber(OperandOf("right")))) =>
        IsRuntimeErrorAtOperator(eresult.res, <<"Operands must be numbers.">>)

IsString(res) == res.tag = "Ok" /\ res.value.tag = "String"

\* C14: a Binary node with Plus whose operands evaluate to values gives the
\* Number a + b for two Numbers, the String a followed by b for two Strings,
\* and for every other pairing the Runtime error "operands must be two numbers
\* or two strings" (capitals aside).
C14_Plus ==
    (epc = "returned" /\ IsBinaryOf({"Plus"})
        /\ IsValue(OperandOf("left")) /\ IsValue(OperandOf("right"))) =>
        IF IsNumber(OperandOf("left")) /\ IsNumber(OperandOf("right"))
        THEN eresult.res = Ok(ValueNumber(f64_add(OperandOf("left").value.n,
                                                  OperandOf("right").value.n)))
        ELSE IF IsString(OperandOf("left")) /\ IsString(OperandOf("right"))
        THEN eresult.res = Ok(ValueString(OperandOf("left").value.s
                                              \o OperandOf("right").value.s))
        ELSE IsRuntimeError(eresult.res,
                            <<"Operands must be two numbers or two strings">>)

\* `"a" + "b"` has been evaluated to "ab"
C14_Witness ==
    /\ epc = "returned"
    /\ IsBinaryOf({"Plus"})
    /\ eexpr.left = Literal(LitString(<<"a">>))
    /\ eexpr.right = Literal(LitString(<<"b">>))
    /\ eresult.res = Ok(ValueString(<<"a", "b">>))

\* false for Bool(false) only
Truthy(v) == ~(v.tag = "Bool" /\ v.b = FALSE)

\* C15: a Unary node whose operand evaluates to a value v gives, under Minus,
\* Number(-n) when v is Number(n) and the Runtime error "operand must be a
\* number" otherwise, and under Bang Bool(not truthy(v)), where only
\* Bool(false) is not truthy (Nil is).
C15_Unary ==
    (epc = "returned" /\ eexpr.type = "Unary" /\ IsValue(OperandOf("right"))) =>
        /\ eexpr.operator.kind = "Minus" =>
               IF IsNumber(OperandOf("right"))
               THEN eresult.res = Ok(ValueNumber(F64(0 - OperandOf("right").value.n.n,
                                                     OperandOf("right").value.n.d)))
               ELSE IsRuntimeError(eresult.res, <<"Operand must be a number.">>)
        /\ eexpr.operator.kind = "Bang" =>
               eresult.res = Ok(ValueBool(~Truthy(OperandOf("right").value)))

\* `!nil` has been evaluated to false
C15_Witness ==
    /\ epc = "returned"
    /\ eexpr = Unary(OperatorToken("Bang"), Literal(LitNil))
    /\ eresult.res = Ok(ValueBool(FALSE))

\* the places in the call order of the calls of evaluate inside the operand
CallsInside(field) ==
    {i \in 1..Len(eresult.order) :
        eresult.order[i] # <<>> /\ eresult.order[i][1] = field}

\* the branch a condition value selects, and the other one
Selected(v) == IF Truthy(v) THEN "then_expr" ELSE "else_expr"
Unselected(v) == IF Truthy(v) THEN "else_expr" ELSE "then_expr"

\* C16: a Ternary node evaluates its condition first and then exactly one
\* branch, then_expr when the condition value is truthy and else_expr
\* otherwise, and gives that branch's result; the other branch is never
\* evaluated, so no error of it shows; when the condition fails its error is
\* the result and neither branch is evaluated.
C16_TernaryShortCircuit ==
    (epc = "returned" /\ eexpr.type = "Ternary") =>
        /\ eresult.order[1] = <<>>
        /\ eresult.order[2] = <<"condition">>
        /\ IF IsValue(OperandOf("condition"))
           THEN /\ eresult.res = OperandOf(Selected(OperandOf("condition").value))
                /\ CallsInside(Unselected(OperandOf("condition").value)) = {}
                /\ Cardinality({i \in 1..Len(eresult.order) :
                       eresult.order[i] = <<Selected(OperandOf("condition").value)>>})
                       = 1
                /\ \A i \in CallsInside("condition") :
                       \A j \in CallsInside(Selected(OperandOf("condition").value)) :
                           i < j
           ELSE /\ eresult.res = OperandOf("condition")
                /\ CallsInside("then_expr") = {}
                /\ CallsInside("else_expr") = {}

\* `1 ? 2 : -nil` has been evaluated to 2: the branch not taken would fail
C16_Witness ==
    /\ epc = "returned"
    /\ eexpr = Ternary(Literal(LitNumber(1)), Literal(LitNumber(2)),
                       Unary(OperatorToken("Minus"), Literal(LitNil)))
    /\ eresult.res = Ok(ValueNumber(f64_from(2)))

\* C19: a Binary node with Greater, GreaterEqual, Less, LessEqual, BangEqual,
\* Equal, EqualEqual or Comma never gives a value: when both operands evaluate
\* to values the result is the Runtime error "Invalid binary operator" at the
\* position of the operator; when the left operand fails the result is its
\* error and the right operand is not evaluated; when only the right operand
\* fails the result is its error.
C19_InvalidBinaryOperator ==
    (epc = "returned"
        /\ IsBinaryOf({"Greater", "GreaterEqual", "Less", "LessEqual", "BangEqual",
                       "Equal", "EqualEqual", "Comma"})) =>
        /\ ~IsValue(eresult.res)
        /\ IF ~IsValue(OperandOf("left"))
           THEN eresult.res = OperandOf("left") /\ CallsInside("right") = {}
           ELSE IF ~IsValue(OperandOf("right"))
           THEN eresult.res = OperandOf("right")
           ELSE IsRuntimeErrorAtOperator(eresult.res, <<"Invalid binary operator">>)

\* `1 == 1` has been evaluated to the error
C19_Witness ==
    /\ epc = "returned"
    /\ eexpr = Binary(Literal(LitNumber(1)), OperatorToken("EqualEqual"),
                      Literal(LitNumber(1)))
    /\ eresult.res.tag = "Err"
    /\ eresult.res.error.message = <<"Invalid binary operator">>

====
